---- MODULE Spec2Model ----
(***************************************************************************)
(* Hive Mind Central Hub (src/main.py): the agent table, the task table,   *)
(* the project table and the request handlers that read and write them.    *)
(*                                                                         *)
(* Every handler runs in its own database session and is one action,       *)
(* except create_project, which commits twice (the project row, then its   *)
(* task rows) and is therefore two steps with other requests in between.   *)
(* main.py addresses tasks by the name-keyed columns assigned_to,          *)
(* created_by, completed_by, project_id; the model keeps those names.      *)
(***************************************************************************)
EXTENDS Naturals, Integers, Sequences, FiniteSets, TLC

VARIABLES
    agents,     \* agents table: sequence of rows, id = position
    registering,\* register_agent requests between their name check and their insert
    tokens,     \* names for which login_agent has issued a bearer token
    tasks,      \* tasks table: sequence of rows, id = position
    projects,   \* projects table: sequence of rows, id = position
    now,        \* the clock read by datetime.utcnow()
    creating,   \* create_project requests between their two commits
    delivered,  \* agent name -> ids of the tasks its polls have returned
    announced,  \* project id -> tasks_count the create_project call was given
    response,   \* HTTP status of the last request handled
    stats       \* "tasks" part of the body get_stats returned last

vars == <<agents, registering, tokens, tasks, projects, now, creating, delivered, announced, response, stats>>

----------------------------------------------------------------------------
(* Bounds of the model *)

MaxTasks == 2
MaxProjects == 1
MaxTime == 1
MaxBatch == 2

(* Values *)

None == "None"
MainBot == "main_bot"
Workers == {"a1", "a2"}
Names == Workers \cup {MainBot}
DefaultPassword == "admin123"
Passwords == {DefaultPassword, "pw"}
HeartbeatStatuses == {"online", "busy"}
AnyStatus == HeartbeatStatuses \cup {"rebooting"}
Activities == {None, "", "job"}
AssignTargets == Workers \cup {None}
\* project_id of a task that assign_task created: no project has this id
NoProject == 0

OK == 200
BadRequest == 400
Unauthenticated == 401
Forbidden == 403
NotFound == 404
ServerError == 500

(* hash_password: sha256 of the password, taken as collision free *)
hash_password(password) == <<"sha256", password>>

(* TaskResult bodies sent to complete_task *)
TaskResults ==
    { [success |-> TRUE, result |-> "out", error |-> None],
      [success |-> FALSE, result |-> None, error |-> "boom"] }

AgentIds == 1..Len(agents)
TaskIds == 1..Len(tasks)
ProjectIds == 1..Len(projects)

----------------------------------------------------------------------------
(* Rows *)

\* a new row that is always given the admin flag
NewAgentAdmin(name, password, isMain, st) ==
    [ name          |-> name,
      password_hash |-> hash_password(password),
      status        |-> st,
      last_seen     |-> now,
      is_main_bot   |-> TRUE,
      current_task  |-> None ]

NewAgent(name, password, isMain, st) ==
    [ name          |-> name,
      password_hash |-> hash_password(password),
      status        |-> st,
      last_seen     |-> now,
      is_main_bot   |-> isMain,
      current_task  |-> None ]

NewTask(target, admin, pid) ==
    [ task_type    |-> "shell",
      command      |-> "run",
      assigned_to  |-> target,
      status       |-> "pending",
      created_by   |-> admin,
      project_id   |-> pid,
      result       |-> None,
      error        |-> None,
      completed_at |-> None,
      completed_by |-> None ]

NewProject(admin) ==
    [ name            |-> "P",
      status          |-> "active",
      created_by      |-> admin,
      tasks_count     |-> 0,
      completed_count |-> 0 ]

----------------------------------------------------------------------------
(* Agent lookup: db.query(Agent).filter(Agent.name == n).first() *)

Registered(n) == \E i \in AgentIds : agents[i].name = n

FirstRow(n) ==
    CHOOSE i \in AgentIds :
        agents[i].name = n /\ \A j \in 1..(i - 1) : agents[j].name # n

AgentRow(n) == agents[FirstRow(n)]

----------------------------------------------------------------------------
(* Access control *)

\* get_current_agent: the token verifies and its subject is still an agent
Authenticated(a) == a \in tokens /\ Registered(a)

\* require_admin
IsAdmin(a) == Authenticated(a) /\ AgentRow(a).is_main_bot

\* require_admin without its role check
AdminGateAnyAgent(a) ==
    IF ~Authenticated(a) THEN Unauthenticated ELSE OK

\* the status an admin route answers before its body runs
AdminGate(a) ==
    IF ~Authenticated(a) THEN Unauthenticated
    ELSE IF ~AgentRow(a).is_main_bot THEN Forbidden
    ELSE OK

----------------------------------------------------------------------------
\* no statistics have been returned yet
NoStats == [total |-> 0, pending |-> 0, completed |-> 0, failed |-> 0]

Init ==
    /\ now = 0
    /\ agents = << [ name          |-> MainBot,
                     password_hash |-> hash_password(DefaultPassword),
                     status        |-> "online",
                     last_seen     |-> 0,
                     is_main_bot   |-> TRUE,
                     current_task  |-> None ] >>
    /\ registering = {}
    /\ tokens = {}
    /\ tasks = << >>
    /\ projects = << >>
    /\ creating = {}
    /\ delivered = [a \in Names |-> {}]
    /\ announced = << >>
    /\ response = OK
    /\ stats = NoStats

Tick ==
    /\ now < MaxTime
    /\ now' = now + 1
    /\ UNCHANGED <<agents, tokens, tasks, projects, creating, delivered, announced, response, registering, stats>>

----------------------------------------------------------------------------
(* Startup *)

\* create_main_bot: insert the admin row, or repair its flag; the password of
\* an existing row is not touched
\* provisioning that also puts the default password back on an existing row
ProvisionedResetsPassword(table) ==
    IF \A i \in 1..Len(table) : table[i].name # MainBot
    THEN Append(table, NewAgent(MainBot, DefaultPassword, TRUE, "online"))
    ELSE LET i == CHOOSE k \in 1..Len(table) :
                      table[k].name = MainBot /\ \A j \in 1..(k - 1) : table[j].name # MainBot
         IN [table EXCEPT ![i].is_main_bot = TRUE,
                          ![i].password_hash = hash_password(DefaultPassword)]

\* create_main_bot as a function of the agents table
Provisioned(table) ==
    IF \A i \in 1..Len(table) : table[i].name # MainBot
    THEN Append(table, NewAgent(MainBot, DefaultPassword, TRUE, "online"))
    ELSE LET i == CHOOSE k \in 1..Len(table) :
                      table[k].name = MainBot /\ \A j \in 1..(k - 1) : table[j].name # MainBot
         IN [table EXCEPT ![i].is_main_bot = TRUE]

create_main_bot ==
    /\ agents' = Provisioned(agents)
    /\ UNCHANGED <<tokens, tasks, projects, now, creating, delivered, announced, response, registering, stats>>

----------------------------------------------------------------------------
(* Agent endpoints *)

\* the agents table without its unique index on name
NoUniqueIndex(name) == FALSE

\* the unique index on agents.name refuses a second row with the name
UniqueIndexRejects(name) == Registered(name)

\* register_agent up to its name check: 400 when the name is taken
register_agent_begin(name, password) ==
    /\ IF Registered(name)
       THEN /\ response' = BadRequest
            /\ UNCHANGED registering
       ELSE /\ registering' = registering \cup {[name |-> name, password |-> password]}
            /\ UNCHANGED response
    /\ UNCHANGED <<agents, tokens, tasks, projects, now, creating, delivered, announced, stats>>

\* register_agent from its name check on: the insert and its commit.  When
\* the index refuses the row, the handler's `except Exception` answers 200
\* with the error in the body.
register_agent_commit(req) ==
    /\ req \in registering
    /\ registering' = registering \ {req}
    /\ agents' = IF UniqueIndexRejects(req.name)
                 THEN agents
                 ELSE Append(agents, NewAgent(req.name, req.password, FALSE, "offline"))
    /\ response' = OK
    /\ UNCHANGED <<tokens, tasks, projects, now, creating, delivered, announced, stats>>

\* The 401 raised for bad credentials is raised inside the handler's try block,
\* whose `except Exception` turns it into a 500.
login_agent(name, password) ==
    /\ IF ~Registered(name) \/ AgentRow(name).password_hash # hash_password(password)
       THEN /\ response' = ServerError
            /\ UNCHANGED <<agents, tokens>>
       ELSE /\ agents' = [agents EXCEPT ![FirstRow(name)].last_seen = now,
                                        ![FirstRow(name)].status = "online"]
            /\ tokens' = tokens \cup {name}
            /\ response' = OK
    /\ UNCHANGED <<tasks, projects, now, creating, delivered, announced, registering, stats>>

\* a heartbeat that stored current_task whether or not it carried one
agent_heartbeat_overwriting(a, st, activity) ==
    /\ IF ~Authenticated(a)
       THEN /\ response' = Unauthenticated
            /\ UNCHANGED agents
       ELSE /\ agents' = [agents EXCEPT
                             ![FirstRow(a)].status = st,
                             ![FirstRow(a)].last_seen = now,
                             ![FirstRow(a)].current_task = activity]
            /\ response' = OK
    /\ UNCHANGED <<tokens, tasks, projects, now, creating, delivered, announced, registering, stats>>

agent_heartbeat(a, st, activity) ==
    /\ IF ~Authenticated(a)
       THEN /\ response' = Unauthenticated
            /\ UNCHANGED agents
       ELSE /\ agents' = [agents EXCEPT
                             ![FirstRow(a)].status = st,
                             ![FirstRow(a)].last_seen = now,
                             ![FirstRow(a)].current_task =
                                 IF activity \notin {None, ""} THEN activity ELSE @]
            /\ response' = OK
    /\ UNCHANGED <<tokens, tasks, projects, now, creating, delivered, announced, registering, stats>>

\* the first query with its agent filter lost
PinnedPendingAnyone(a) ==
    {t \in TaskIds : tasks[t].assigned_to # None /\ tasks[t].status = "pending"}

\* the two queries of poll_tasks
PinnedPending(a) ==
    {t \in TaskIds : tasks[t].assigned_to = a /\ tasks[t].status = "pending"}

\* the second query with its broadcast filter lost
AllPending == {t \in TaskIds : tasks[t].status = "pending"}

BroadcastPending ==
    {t \in TaskIds : tasks[t].assigned_to = None /\ tasks[t].status = "pending"}

\* a set of ids as the list of rows a query returns, in id order
RECURSIVE Rows(_)
Rows(ids) ==
    IF ids = {} THEN << >>
    ELSE LET m == CHOOSE x \in ids : \A y \in ids : x <= y
         IN <<m>> \o Rows(ids \ {m})

\* all_tasks = tasks + broadcast_tasks, as the list the response is built from
AllTasks(a) == Rows(PinnedPending(a)) \o Rows(BroadcastPending)

\* all_tasks = tasks + broadcast_tasks
PollResult(a) == PinnedPending(a) \cup BroadcastPending

\* a poll that marked the rows it returns as claimed by a
TasksAfterPollClaiming(a) ==
    [t \in TaskIds |->
        IF t \in PollResult(a)
        THEN [tasks[t] EXCEPT !.status = "claimed", !.assigned_to = a]
        ELSE tasks[t]]

\* the task rows after a poll by a: the handler only reads
TasksAfterPoll(a) == tasks

poll_tasks(a) ==
    /\ IF ~Authenticated(a)
       THEN /\ response' = Unauthenticated
            /\ UNCHANGED <<tasks, delivered>>
       ELSE /\ delivered' = [delivered EXCEPT ![a] = @ \cup PollResult(a)]
            /\ tasks' = TasksAfterPoll(a)
            /\ response' = OK
    /\ UNCHANGED <<agents, tokens, projects, now, creating, announced, registering, stats>>

\* a report that also made the reporter the row's assignee
CompletedTakingOver(row, a, body) ==
    [row EXCEPT
        !.status       = IF body.success THEN "completed" ELSE "failed",
        !.result       = body.result,
        !.error        = body.error,
        !.completed_at = now,
        !.completed_by = a,
        !.assigned_to  = a]

\* the row complete_task writes: no look at the row's owner or status
Completed(row, a, body) ==
    [row EXCEPT
        !.status       = IF body.success THEN "completed" ELSE "failed",
        !.result       = body.result,
        !.error        = body.error,
        !.completed_at = now,
        !.completed_by = a]

complete_task(a, t, body) ==
    /\ IF ~Authenticated(a)
       THEN /\ response' = Unauthenticated
            /\ UNCHANGED tasks
       ELSE IF t \notin TaskIds
       THEN /\ response' = NotFound
            /\ UNCHANGED tasks
       ELSE /\ tasks' = [tasks EXCEPT ![t] = Completed(@, a, body)]
            /\ response' = OK
    /\ UNCHANGED <<agents, tokens, projects, now, creating, delivered, announced, registering, stats>>

----------------------------------------------------------------------------
(* Admin endpoints *)

\* task rows a create_project call still has to insert
RECURSIVE Reserved(_)
Reserved(reqs) ==
    IF reqs = {} THEN 0
    ELSE LET r == CHOOSE x \in reqs : TRUE
         IN Len(r.batch) + Reserved(reqs \ {r})

assign_task(c, target) ==
    /\ Len(tasks) + Reserved(creating) < MaxTasks
    /\ response' = AdminGate(c)
    /\ tasks' = IF AdminGate(c) = OK
                THEN Append(tasks, NewTask(target, c, NoProject))
                ELSE tasks
    /\ UNCHANGED <<agents, tokens, projects, now, creating, delivered, announced, registering, stats>>

list_agents(c) ==
    /\ response' = AdminGate(c)
    /\ UNCHANGED <<agents, tokens, tasks, projects, now, creating, delivered, announced, registering, stats>>

list_tasks(c) ==
    /\ response' = AdminGate(c)
    /\ UNCHANGED <<agents, tokens, tasks, projects, now, creating, delivered, announced, registering, stats>>

list_projects(c) ==
    /\ response' = AdminGate(c)
    /\ UNCHANGED <<agents, tokens, tasks, projects, now, creating, delivered, announced, registering, stats>>

\* db.query(Task).filter(Task.status == st).count()
CountStatus(st) == Cardinality({t \in TaskIds : tasks[t].status = st})

\* the "tasks" part of the body: failed is what is left of the total
TaskStats ==
    [ total     |-> Len(tasks),
      pending   |-> CountStatus("pending"),
      completed |-> CountStatus("completed"),
      failed    |-> Len(tasks) - CountStatus("pending") - CountStatus("completed") ]

get_stats(c) ==
    /\ response' = AdminGate(c)
    /\ stats' = IF AdminGate(c) = OK THEN TaskStats ELSE stats
    /\ UNCHANGED <<agents, tokens, tasks, projects, now, creating, delivered, announced, registering>>

\* sequences over S of length at most n
SeqUpTo(S, n) == UNION {[1..k -> S] : k \in 0..n}

\* the rows the loop over project_data.tasks adds
BatchRows(batch, c, pid) ==
    [i \in 1..Len(batch) |-> NewTask(batch[i], c, pid)]

\* create_project up to its first commit: the project row is in the table
create_project_begin(c, batch) ==
    /\ Len(projects) < MaxProjects
    /\ Len(tasks) + Reserved(creating) + Len(batch) <= MaxTasks
    /\ response' = IF AdminGate(c) = OK THEN response ELSE AdminGate(c)
    /\ IF AdminGate(c) = OK
       THEN /\ projects' = Append(projects, NewProject(c))
            /\ announced' = Append(announced, Len(batch))
            /\ creating' = creating \cup
                   {[project_id |-> Len(projects) + 1, batch |-> batch, admin |-> c]}
       ELSE UNCHANGED <<projects, announced, creating>>
    /\ UNCHANGED <<agents, tokens, tasks, now, delivered, registering, stats>>

\* create_project from its first commit to its second: the task rows
create_project_finish(req) ==
    /\ req \in creating
    /\ tasks' = tasks \o BatchRows(req.batch, req.admin, req.project_id)
    /\ creating' = creating \ {req}
    /\ response' = OK
    /\ UNCHANGED <<agents, tokens, projects, now, delivered, announced, registering, stats>>

\* the second commit raises (storage failure): the session is closed, the
\* project row of the first commit stays
create_project_abort(req) ==
    /\ req \in creating
    /\ creating' = creating \ {req}
    /\ response' = ServerError
    /\ UNCHANGED <<agents, tokens, tasks, projects, now, delivered, announced, registering, stats>>

----------------------------------------------------------------------------
Next ==
    \/ Tick
    \/ create_main_bot
    \/ \E n \in Names, p \in Passwords : register_agent_begin(n, p)
    \/ \E req \in registering : register_agent_commit(req)
    \/ \E n \in Names, p \in Passwords : login_agent(n, p)
    \/ \E a \in Names, st \in HeartbeatStatuses, act \in Activities :
           agent_heartbeat(a, st, act)
    \/ \E a \in Names : poll_tasks(a)
    \/ \E a \in Names, t \in 1..MaxTasks, body \in TaskResults : complete_task(a, t, body)
    \/ \E c \in Names, target \in AssignTargets : assign_task(c, target)
    \/ \E c \in Names : list_agents(c)
    \/ \E c \in Names : list_tasks(c)
    \/ \E c \in Names : list_projects(c)
    \/ \E c \in Names : get_stats(c)
    \/ \E c \in Names, batch \in SeqUpTo(AssignTargets, MaxBatch) :
           create_project_begin(c, batch)
    \/ \E req \in creating : create_project_finish(req)
    \/ \E req \in creating : create_project_abort(req)

Spec == Init /\ [][Next]_vars

----------------------------------------------------------------------------
(* The work queue with its fleet in place.  InitQueue is the state Spec     *)
(* reaches once a1 and a2 have registered and everyone has logged in; from  *)
(* there the admin creates tasks and projects and the workers poll, report, *)
(* log in again and send heartbeats.                                        *)

RegisteredWorker ==
    [ name          |-> "a1",
      password_hash |-> hash_password("pw"),
      status        |-> "online",
      last_seen     |-> 0,
      is_main_bot   |-> FALSE,
      current_task  |-> None ]

InitQueue ==
    /\ now = 0
    /\ agents = << [RegisteredWorker EXCEPT
                        !.name = MainBot,
                        !.password_hash = hash_password(DefaultPassword),
                        !.is_main_bot = TRUE],
                   RegisteredWorker,
                   [RegisteredWorker EXCEPT !.name = "a2"] >>
    /\ registering = {}
    /\ tokens = Names
    /\ tasks = << >>
    /\ projects = << >>
    /\ creating = {}
    /\ delivered = [a \in Names |-> {}]
    /\ announced = << >>
    /\ response = OK
    /\ stats = NoStats

NextQueue ==
    \/ \E a \in Workers : poll_tasks(a)
    \/ \E a \in Workers, t \in 1..MaxTasks, body \in TaskResults : complete_task(a, t, body)
    \/ \E c \in {MainBot, "a1"}, target \in AssignTargets : assign_task(c, target)
    \/ \E batch \in SeqUpTo(AssignTargets, MaxBatch) : create_project_begin(MainBot, batch)
    \/ \E req \in creating : create_project_finish(req)
    \/ \E req \in creating : create_project_abort(req)
    \/ list_projects(MainBot)
    \/ \E p \in Passwords : login_agent("a1", p)
    \/ \E st \in HeartbeatStatuses : agent_heartbeat("a1", st, None)

SpecQueue == InitQueue /\ [][NextQueue]_vars

----------------------------------------------------------------------------
(* The claim protocol alone: the admin assigns and broadcasts, the workers  *)
(* poll and report.                                                         *)

NextPoll ==
    \/ \E target \in AssignTargets : assign_task(MainBot, target)
    \/ \E a \in Workers : poll_tasks(a)
    \/ \E a \in Workers, t \in 1..MaxTasks, body \in TaskResults : complete_task(a, t, body)

SpecPoll == InitQueue /\ [][NextPoll]_vars

\* the workers keep polling: a poll that would bring an agent something new
\* is not put off forever
SpecPollFair == SpecPoll /\ \A a \in Workers : WF_vars(poll_tasks(a))

\* the claim protocol with time passing and heartbeats arriving or not
NextStale ==
    \/ NextPoll
    \/ Tick
    \/ \E a \in Workers, st \in HeartbeatStatuses : agent_heartbeat(a, st, None)

SpecStale == InitQueue /\ [][NextStale]_vars

\* Liveness of the agents: time passes and the admin keeps reading the
\* agent list and the statistics, while the workers may fall silent (no
\* fairness on logins and heartbeats).
NextSweep ==
    \/ Tick
    \/ \E a \in Workers, st \in HeartbeatStatuses, activity \in Activities :
           agent_heartbeat(a, st, activity)
    \/ \E a \in Workers, p \in Passwords : login_agent(a, p)
    \/ list_agents(MainBot)
    \/ get_stats(MainBot)
    \/ \E a \in Workers : poll_tasks(a)

SpecSweepFair ==
    /\ InitQueue /\ [][NextSweep]_vars
    /\ WF_vars(Tick) /\ WF_vars(list_agents(MainBot)) /\ WF_vars(get_stats(MainBot))

----------------------------------------------------------------------------
(* The admin routes, called by the admin and by the worker a1.              *)

NextAdmin ==
    \/ \E c \in {MainBot, "a1"}, target \in AssignTargets : assign_task(c, target)
    \/ \E c \in {MainBot, "a1"}, batch \in SeqUpTo(AssignTargets, MaxBatch) :
           create_project_begin(c, batch)
    \/ \E req \in creating : create_project_finish(req)
    \/ \E c \in {MainBot, "a1"} : list_agents(c)
    \/ \E c \in {MainBot, "a1"} : list_tasks(c)
    \/ \E c \in {MainBot, "a1"} : list_projects(c)
    \/ \E c \in {MainBot, "a1"} : get_stats(c)

SpecAdmin == InitQueue /\ [][NextAdmin]_vars

----------------------------------------------------------------------------
(* The identity store from startup: provisioning, registration, login and   *)
(* heartbeats of the admin and of one worker.  Startup runs create_main_bot  *)
(* on an empty table; the row is there afterwards unless the insert raised,  *)
(* which create_main_bot catches and prints.                                 *)

IdentityNames == {MainBot, "a1"}

InitIdentity ==
    /\ now = 0
    /\ agents \in {<< >>, Provisioned(<< >>)}
    /\ registering = {}
    /\ tokens = {}
    /\ tasks = << >>
    /\ projects = << >>
    /\ creating = {}
    /\ delivered = [a \in Names |-> {}]
    /\ announced = << >>
    /\ response = OK
    /\ stats = NoStats

NextIdentity ==
    \/ Tick
    \/ create_main_bot
    \/ \E n \in IdentityNames, p \in Passwords : register_agent_begin(n, p)
    \/ \E req \in registering : register_agent_commit(req)
    \/ \E n \in IdentityNames, p \in Passwords : login_agent(n, p)
    \/ \E a \in IdentityNames, st \in AnyStatus : agent_heartbeat(a, st, None)

SpecIdentity == InitIdentity /\ [][NextIdentity]_vars

----------------------------------------------------------------------------
(* The life of the task table once the admin has created a project with    *)
(* one broadcast task: the admin assigns more tasks, a1 polls, a2 reports  *)
(* (whether or not it was the one polled for), the admin reads the          *)
(* statistics.                                                              *)

InitProject ==
    /\ now = 0
    /\ agents = << [RegisteredWorker EXCEPT
                        !.name = MainBot,
                        !.password_hash = hash_password(DefaultPassword),
                        !.is_main_bot = TRUE],
                   RegisteredWorker,
                   [RegisteredWorker EXCEPT !.name = "a2"] >>
    /\ registering = {}
    /\ tokens = Names
    /\ tasks = << NewTask(None, MainBot, 1) >>
    /\ projects = << NewProject(MainBot) >>
    /\ creating = {}
    /\ delivered = [a \in Names |-> {}]
    /\ announced = << 1 >>
    /\ response = OK
    /\ stats = NoStats

NextReport ==
    \/ \E target \in AssignTargets : assign_task(MainBot, target)
    \/ poll_tasks("a1")
    \/ \E t \in 1..MaxTasks, body \in TaskResults : complete_task("a2", t, body)
    \/ get_stats(MainBot)

SpecReport == InitProject /\ [][NextReport]_vars

----------------------------------------------------------------------------
(* Heartbeats of the workers while time passes and the admin adds tasks     *)
(* to the project's one.                                                    *)

NextHeartbeat ==
    \/ Tick
    \/ \E a \in Workers, st \in AnyStatus, activity \in Activities :
           agent_heartbeat(a, st, activity)
    \/ \E target \in AssignTargets : assign_task(MainBot, target)

SpecHeartbeat == InitProject /\ [][NextHeartbeat]_vars

----------------------------------------------------------------------------
(* Properties of the claim protocol *)

Finished == {"completed", "failed"}

\* C1: no double delivery - over the whole run every task id has been in the
\* poll results of at most one agent.
NoDoubleDelivery ==
    \A t \in TaskIds : Cardinality({a \in Names : t \in delivered[a]}) <= 1

\* C2: when a poll by a returns, every task in its result is claimed by a -
\* status claimed and assigned_to = a - by that same call.
PollClaimsWhatItReturns ==
    [][\A a \in Names :
          (poll_tasks(a) /\ Authenticated(a)) =>
              \A t \in PollResult(a) :
                  /\ tasks'[t].status = "claimed"
                  /\ tasks'[t].assigned_to = a]_vars

\* t is in the hands of an agent other than b: a poll handed it to someone
\* else, never to b, and no result has been reported for it
HeldByAnother(t, b) ==
    /\ tasks[t].status \notin Finished
    /\ t \notin delivered[b]
    /\ \E a \in Names \ {b} : t \in delivered[a]

\* C3: ownership enforcement - a report by b on a task another agent holds
\* fails and leaves the task row (status, result, error, completed_at,
\* completed_by) as it was.
OwnershipEnforced ==
    [][\A b \in Names, t \in TaskIds, body \in TaskResults :
          (complete_task(b, t, body) /\ Authenticated(b) /\ HeldByAnother(t, b)) =>
              (response' # OK /\ tasks'[t] = tasks[t])]_vars

\* C4: idempotent completion - a second report by the agent that already
\* reported the task fails and leaves what the first report recorded.
SecondReportRejected ==
    [][\A a \in Names, t \in TaskIds, body \in TaskResults :
          (/\ complete_task(a, t, body)
           /\ Authenticated(a)
           /\ t \in delivered[a]
           /\ tasks[t].status \in Finished
           /\ tasks[t].completed_by = a) =>
              (response' # OK /\ tasks'[t] = tasks[t])]_vars

\* C5: a report by a succeeds only on a task with assigned_to = a and status
\* claimed; on any other task (still pending, still broadcast) it is
\* rejected and changes nothing.
ReportNeedsOwnClaim ==
    [][\A a \in Names, t \in TaskIds, body \in TaskResults :
          (/\ complete_task(a, t, body)
           /\ Authenticated(a)
           /\ ~(tasks[t].assigned_to = a /\ tasks[t].status = "claimed")) =>
              (response' # OK /\ tasks' = tasks)]_vars

\* the status lifecycle pending -> claimed -> {completed, failed}
Lifecycle ==
    { <<"pending", "claimed">>, <<"claimed", "completed">>, <<"claimed", "failed">> }

\* C6: monotonic status - every change of a task's status is a step of the
\* lifecycle pending -> claimed -> {completed, failed}; a finished task
\* never has status pending or claimed again.
MonotonicStatus ==
    [][\A t \in TaskIds :
          \/ tasks'[t].status = tasks[t].status
          \/ <<tasks[t].status, tasks'[t].status>> \in Lifecycle]_vars

\* C7: a task pinned to an agent b has never been in the poll result of
\* another agent a (and so was never claimed through a's polls).
PinnedNeverLeaks ==
    \A a \in Names, t \in TaskIds :
        tasks[t].assigned_to \notin {None, a} => t \notin delivered[a]

\* a1 polled and got a task while an older task pinned to a2 was pending
PinnedWithheld ==
    \E t1, t2 \in TaskIds :
        /\ t1 < t2
        /\ tasks[t1].assigned_to = "a2"
        /\ tasks[t1].status = "pending"
        /\ t2 \in delivered["a1"]
        /\ t1 \notin delivered["a1"]

\* t is pending and no poll has returned it yet
Undelivered(t) == \A a \in Names : t \notin delivered[a]

DeliveredOnce(t) == Cardinality({a \in Names : t \in delivered[a]}) = 1

\* C8: eventual delivery - while the workers keep polling, every task ends
\* up delivered to exactly one agent, unless it stopped being claimable
\* (it was reported) before any poll returned it.
EventualSingleDelivery ==
    \A t \in 1..MaxTasks :
        [](t \in TaskIds =>
              <>(\/ [](t \in TaskIds /\ DeliveredOnce(t))
                 \/ (t \in TaskIds /\ Undelivered(t) /\ tasks[t].status # "pending")))

\* C9: stale reclamation - a broadcast task handed to a, whose last_seen has
\* since fallen behind the clock and who never reported it, goes back to
\* the pool, and the poll by another agent b that returns it claims it for b.
StaleClaimMovesOn ==
    [][\A a \in Names, b \in Names, t \in TaskIds :
          (/\ a # b
           /\ t \in delivered[a]
           /\ tasks[t].status \notin Finished
           /\ AgentRow(a).last_seen < now
           /\ poll_tasks(b) /\ Authenticated(b)
           /\ t \in PollResult(b)) =>
              (tasks'[t].status = "claimed" /\ tasks'[t].assigned_to = b)]_vars

\* every project row has all the tasks its create_project call was given
ProjectsWhole ==
    \A p \in ProjectIds :
        Cardinality({t \in TaskIds : tasks[t].project_id = p}) = announced[p]

\* a request served by another handler that reads the project or task table
ReadByAnotherRequest ==
    \/ \E c \in Names : list_projects(c) /\ response' = OK
    \/ \E c \in Names : list_tasks(c) /\ response' = OK
    \/ \E a \in Names : poll_tasks(a) /\ response' = OK

\* C10: project atomicity - a request served next to create_project (the
\* admin listing projects or tasks, an agent polling) never finds a project
\* with only part, or none, of its initial tasks.
AtomicProjectCreation ==
    [][ReadByAnotherRequest => ProjectsWhole]_vars

----------------------------------------------------------------------------
(* Properties of the project ledger, the identity store and access control *)

ProjectTasks(p) ==
    {t \in TaskIds : tasks[t].project_id = p}

\* C11: every project's tasks_count is the number of tasks with its
\* project_id, and its completed_count the number of those that are completed.
ProjectCountsMatch ==
    \A p \in ProjectIds :
        /\ projects[p].tasks_count = Cardinality(ProjectTasks(p))
        /\ projects[p].completed_count =
               Cardinality({t \in ProjectTasks(p) : tasks[t].status = "completed"})

UniqueNames ==
    \A i, j \in AgentIds : agents[i].name = agents[j].name => i = j

\* C12: a register call for a name that exists is rejected and leaves the
\* agents table as it was, also when the name came to exist between the
\* call's name check and its insert; no two rows ever share a name.
RegistrationKeepsNamesUnique ==
    [][/\ \A n \in Names, p \in Passwords :
              (register_agent_begin(n, p) /\ Registered(n)) =>
                  (response' = BadRequest /\ agents' = agents /\ registering' = registering)
       /\ \A req \in registering :
              (register_agent_commit(req) /\ Registered(req.name)) => agents' = agents
       /\ UniqueNames']_vars

\* a register call for a1 is past its name check while a1 has been
\* registered, with another password, by a call that overtook it
RegistrationRaceLost ==
    /\ Registered("a1")
    /\ \E req \in registering :
           req.name = "a1" /\ AgentRow("a1").password_hash # hash_password(req.password)

AdminCount == Cardinality({i \in AgentIds : agents[i].is_main_bot})

ProvisioningIdempotent ==
    [][create_main_bot =>
          /\ Registered(MainBot) =>
                 /\ Len(agents') = Len(agents)
                 /\ \A i \in AgentIds :
                        agents'[i] = IF i = FirstRow(MainBot)
                                     THEN [agents[i] EXCEPT !.is_main_bot = TRUE]
                                     ELSE agents[i]
          /\ Provisioned(agents') = agents']_vars

\* provisioning has repaired the flag of a main_bot row that registration
\* created with a password of its own
FlagRepairedPasswordKept ==
    /\ Len(agents) = 1
    /\ agents[1].name = MainBot
    /\ agents[1].is_main_bot
    /\ agents[1].status = "offline"
    /\ agents[1].password_hash = hash_password("pw")

\* an admin route called by c
AdminRoute(c) ==
    \/ \E target \in AssignTargets : assign_task(c, target)
    \/ \E batch \in SeqUpTo(AssignTargets, MaxBatch) : create_project_begin(c, batch)
    \/ list_agents(c)
    \/ list_tasks(c)
    \/ list_projects(c)
    \/ get_stats(c)

\* C15: an admin route called by an authenticated agent without the admin
\* flag answers Forbidden and changes no agent, task or project.
AdminRoutesForbidden ==
    [][\A c \in Names :
          (Authenticated(c) /\ ~AgentRow(c).is_main_bot /\ AdminRoute(c)) =>
              (response' = Forbidden /\ UNCHANGED <<agents, tasks, projects>>)]_vars

\* the worker was turned away while tasks and a project exist
WorkerTurnedAway ==
    response = Forbidden /\ Len(tasks) > 0 /\ Len(projects) > 0

\* C16: a login with an unknown name or a wrong password answers
\* Unauthenticated, issues no token and leaves the agents table as it was.
BadLoginUnauthenticated ==
    [][\A n \in Names, p \in Passwords :
          (/\ login_agent(n, p)
           /\ (~Registered(n) \/ AgentRow(n).password_hash # hash_password(p))) =>
              (response' = Unauthenticated /\ tokens' = tokens /\ agents' = agents)]_vars

\* C17: liveness sweep - an online agent whose last_seen is behind the clock
\* and who stays silent is eventually no longer online.
SilentAgentGoesOffline ==
    \A a \in Workers :
        []((AgentRow(a).status = "online" /\ AgentRow(a).last_seen < now) =>
              <>(AgentRow(a).status # "online" \/ AgentRow(a).last_seen = now))

\* C18: every agent's status is offline, online or busy.
StatusInEnum ==
    \A i \in AgentIds : agents[i].status \in {"offline", "online", "busy"}

\* C19: a completed or failed task was completed by the one agent whose poll
\* received it, and that agent is its assigned_to.
CompletedByReceiver ==
    \A t \in TaskIds :
        tasks[t].status \in Finished =>
            /\ tasks[t].completed_by = tasks[t].assigned_to
            /\ \A a \in Names : t \in delivered[a] <=> a = tasks[t].completed_by

\* C20: no task id is twice in one poll result: the rows of the pinned
\* query and the rows of the broadcast query are disjoint.
NoDuplicateInPoll ==
    \A a \in Names :
        /\ PinnedPending(a) \cap BroadcastPending = {}
        /\ \A i, j \in 1..Len(AllTasks(a)) : AllTasks(a)[i] = AllTasks(a)[j] => i = j

\* a1 has polled while a task pinned to it and a broadcast task were pending
PolledBothKinds ==
    \E t1, t2 \in delivered["a1"] :
        /\ tasks[t1].assigned_to = "a1" /\ tasks[t1].status = "pending"
        /\ tasks[t2].assigned_to = None /\ tasks[t2].status = "pending"

----------------------------------------------------------------------------
(* Frame properties and the statistics *)

\* the columns of a task row that a report has no business with
Untouched(row) ==
    <<row.task_type, row.command, row.created_by, row.assigned_to, row.project_id>>

\* C21: no step removes a task row, and complete_task writes only the status,
\* result, error, completed_at and completed_by of its task: the task's id,
\* task_type, command, created_by, assigned_to and project_id, every other
\* task row, and the agents and projects tables stay as they were.
ReportWritesOnlyItsTask ==
    [][/\ Len(tasks') >= Len(tasks)
       /\ \A a \in Names, t \in 1..MaxTasks, body \in TaskResults :
              complete_task(a, t, body) =>
                  /\ UNCHANGED <<agents, projects>>
                  /\ Len(tasks') = Len(tasks)
                  /\ \A u \in TaskIds :
                         /\ u # t => tasks'[u] = tasks[u]
                         /\ Untouched(tasks'[u]) = Untouched(tasks[u])]_vars

\* a2 has reported the project's broadcast task while a task pinned to a1
\* is still pending
ReportedBesidePending ==
    /\ Len(tasks) = 2
    /\ tasks[1].status = "completed" /\ tasks[1].completed_by = "a2"
    /\ tasks[1].project_id = 1 /\ tasks[1].assigned_to = None
    /\ tasks[2].status = "pending" /\ tasks[2].assigned_to = "a1"

\* C22: the task counts get_stats returns agree with the task table: failed,
\* computed as total - pending - completed, is the number of rows whose
\* status is failed, and pending + completed + failed = total.
StatsMatchTasks ==
    [][/\ (TaskStats.failed = CountStatus("failed"))'
       /\ get_stats(MainBot) =>
              /\ stats'.total = Len(tasks)
              /\ stats'.pending = CountStatus("pending")
              /\ stats'.completed = CountStatus("completed")
              /\ stats'.failed = CountStatus("failed")
              /\ stats'.pending + stats'.completed + stats'.failed = stats'.total]_vars

\* the admin has read the statistics of a table with one completed and one
\* failed task
StatsOfMixedTable ==
    /\ stats = [total |-> 2, pending |-> 0, completed |-> 1, failed |-> 1]
    /\ stats = TaskStats

\* C23: a heartbeat of a writes a's status and last_seen, and a's
\* current_task only when it carries a non-empty one; a's other columns,
\* every other agent row, the tasks and the projects stay as they were.
HeartbeatWritesOnlyItsAgent ==
    [][\A a \in Workers, st \in AnyStatus, activity \in Activities :
          agent_heartbeat(a, st, activity) =>
              /\ UNCHANGED <<tasks, projects>>
              /\ Len(agents') = Len(agents)
              /\ \A i \in AgentIds :
                     IF i = FirstRow(a)
                     THEN /\ agents'[i].name = agents[i].name
                          /\ agents'[i].password_hash = agents[i].password_hash
                          /\ agents'[i].is_main_bot = agents[i].is_main_bot
                          /\ agents'[i].status = st
                          /\ agents'[i].last_seen = now
                          /\ agents'[i].current_task =
                                 IF activity \in {None, ""}
                                 THEN agents[i].current_task
                                 ELSE activity
                     ELSE agents'[i] = agents[i]]_vars

\* a1 reported a job and has since sent a heartbeat, a2 has sent none, and
\* the project and its task are there
ActivityKeptAcrossHeartbeats ==
    /\ AgentRow("a1").current_task = "job"
    /\ AgentRow("a1").status = "rebooting"
    /\ AgentRow("a1").last_seen = 1
    /\ AgentRow("a2") = [RegisteredWorker EXCEPT !.name = "a2"]
    /\ Len(tasks) = 2 /\ Len(projects) = 1

====
